---- MODULE Spec2Model ----
(***************************************************************************)
(* Model of mcp_starter.py: the bearer-token provider, the tech_translator *)
(* tool and the Fetch.google_search_links helper.                          *)
(*                                                                         *)
(* Text is a sequence of one-character strings.  One invocation is         *)
(* modelled at a time: `call' names the function that is running (or ran   *)
(* last), `pc' its position, and the remaining variables its locals.  The  *)
(* only state that outlives an invocation is self_token.                   *)
(***************************************************************************)
EXTENDS Integers, Sequences, FiniteSets, TLC

VARIABLES
    self_token,   \* SimpleBearerAuthProvider.token (line 41)
    call,         \* the function that is running or ran last
    pc,           \* its position: "idle", a step name, or "done"
    arg,          \* its arguments
    response,     \* the httpx response it received, NoResponse before
    explanation,  \* tech_translator's local of line 145
    links,        \* google_search_links' local of line 88
    log,          \* entries this invocation appended to mcp_tool.log
    ret           \* how the invocation ended: returned value or raised error

vars == <<self_token, call, pc, arg, response, explanation, links, log, ret>>

(***************************************************************************)
(* Bounds                                                                  *)
(***************************************************************************)
MaxMarkers == 5
MaxAnchors == 3
MaxNumResults == 3

(***************************************************************************)
(* Characters and text helpers (Python str semantics)                      *)
(***************************************************************************)
NL == "\n"

IsSpace(c) == c \in {" ", NL}

IsDigit(c) == c \in {"0", "1", "2", "3", "4", "5", "6", "7", "8", "9"}

RECURSIVE LStrip(_)
LStrip(s) == IF s # <<>> /\ IsSpace(Head(s)) THEN LStrip(Tail(s)) ELSE s

RECURSIVE RStrip(_)
RStrip(s) ==
    IF s # <<>> /\ IsSpace(s[Len(s)]) THEN RStrip(SubSeq(s, 1, Len(s) - 1)) ELSE s

\* str.strip()
Strip(s) == RStrip(LStrip(s))

\* sub in s
Contains(sub, s) ==
    \E i \in 0..(Len(s) - Len(sub)) : SubSeq(s, i + 1, i + Len(sub)) = sub

\* s.startswith(p)
StartsWith(s, p) == Len(p) <= Len(s) /\ SubSeq(s, 1, Len(p)) = p

SeqsUpTo(S, n) == UNION {[1..k -> S] : k \in 0..n}

(***************************************************************************)
(* Values shared by the operations                                         *)
(***************************************************************************)
INTERNAL_ERROR == "INTERNAL_ERROR"
INVALID_PARAMS == "INVALID_PARAMS"

NoRet == [kind |-> "none"]
Return(v) == [kind |-> "return", value |-> v]
Raise(type, code) == [kind |-> "raise", type |-> type, code |-> code]

NoArg == [none |-> TRUE]
NoResponse == [status_code |-> 0]
Unset == [t |-> "unset"]
JStr(s) == [t |-> "str", v |-> s]
JNull == [t |-> "null"]

\* mcp.types.TextContent(type="text", text=...)
TextContent(text) == [type |-> "text", text |-> text]

\* Values AUTH_TOKEN may hold; line 32 asserts it is non-empty.
ConfiguredTokens == {"s3cret", "other"}
PresentedTokens == ConfiguredTokens \cup {"", "s3cre", "S3CRET"}

(***************************************************************************)
(* SimpleBearerAuthProvider                                                *)
(***************************************************************************)
AccessToken(token) ==
    [token |-> token, client_id |-> "puch-client", scopes |-> <<"*">>,
     expires_at |-> "None"]

None == [none |-> TRUE]

load_access_token_nonempty(self_tok, token) ==
    IF token # "" THEN AccessToken(token) ELSE None

load_access_token(self_tok, token) ==
    IF token = self_tok THEN AccessToken(token) ELSE None

\* Locals of the functions that are not running.
IdleLocals ==
    /\ response' = NoResponse
    /\ explanation' = Unset
    /\ links' = <<>>
    /\ log' = <<>>

LoadAccessToken ==
    /\ pc \in {"idle", "done"}
    /\ \E token \in PresentedTokens :
          /\ arg' = [token |-> token]
          /\ ret' = Return(load_access_token(self_token, token))
    /\ call' = "load_access_token"
    /\ pc' = "done"
    /\ IdleLocals
    /\ UNCHANGED self_token

(***************************************************************************)
(* tech_translator                                                         *)
(***************************************************************************)
\* Texts the user may submit.
TechTexts == {<<"a", "p", "i">>, <<>>}

\* Pieces the upstream model's reply is assembled from: text before the
\* first marker, and the text that follows each marker.
Texts == {<<>>, <<"a">>, <<" ", "b", NL>>}
Preambles == Texts \cup {<<"3", ".", "1">>}

DigitChar(k) == <<"1", "2", "3", "4", "5", "6", "7", "8", "9">>[k]

\* The marker "k. " the system prompt asks the model to number sections with.
Marker(k) == <<DigitChar(k), ".", " ">>

RECURSIVE Numbered(_, _)
Numbered(bodies, k) ==
    IF bodies = <<>> THEN <<>>
    ELSE Marker(k) \o Head(bodies) \o Numbered(Tail(bodies), k + 1)

\* Reply strings the upstream model may produce.
Replies ==
    {pre \o Numbered(bs, 1) : pre \in Preambles, bs \in SeqsUpTo(Texts, MaxMarkers)}

\* JSON body of a chat completion carrying `content'.
Completion(content) == [choices |-> <<[message |-> [content |-> content]]>>]

\* JSON bodies that lack choices[0].message.content.
LackingData ==
    { [error |-> "rate limited"],
      [choices |-> <<>>],
      [choices |-> <<[finish_reason |-> "stop"]>>],
      [choices |-> <<[message |-> [role |-> "assistant"]]>>] }

\* Responses the POST may yield.
Responses ==
    {[status_code |-> 200, is_json |-> TRUE, data |-> Completion(JStr(r))] :
        r \in Replies}
    \cup {[status_code |-> 200, is_json |-> TRUE, data |-> Completion(JNull)]}
    \cup {[status_code |-> 200, is_json |-> TRUE, data |-> d] : d \in LackingData}
    \cup {[status_code |-> 200, is_json |-> FALSE, data |-> [html |-> TRUE]]}
    \cup {[status_code |-> c, is_json |-> j, data |-> [error |-> "upstream"]] :
            c \in {401, 429, 500}, j \in BOOLEAN}

Ok(v) == [ok |-> TRUE, v |-> v]
Exc(type) == [ok |-> FALSE, type |-> type]

\* response.json()
json(resp) == IF resp.is_json THEN Ok(resp.data) ELSE Exc("JSONDecodeError")

\* api_data["choices"][0]["message"]["content"]
content_of(api_data) ==
    IF "choices" \notin DOMAIN api_data THEN Exc("KeyError")
    ELSE IF Len(api_data.choices) = 0 THEN Exc("IndexError")
    ELSE IF "message" \notin DOMAIN api_data.choices[1] THEN Exc("KeyError")
    ELSE IF "content" \notin DOMAIN api_data.choices[1].message THEN Exc("KeyError")
    ELSE Ok(api_data.choices[1].message.content)

\* except Exception as e: raise McpError(ErrorData(code=INTERNAL_ERROR, ...))
except_handler_reraise(e) == Raise(e.type, INVALID_PARAMS)

except_handler(e) == Raise("McpError", INTERNAL_ERROR)

LogInput(tech_text) == [msg |-> "tech_translator input", text |-> JStr(tech_text)]
LogOutput(expl) == [msg |-> "tech_translator output", text |-> expl]

\* return [TextContent(type="text", text=explanation)]; the pydantic model
\* rejects a text that is not a str.
return_items_nonempty(expl) ==
    IF expl.t = "str" /\ expl.v # <<>>
      THEN Ok(<<TextContent(expl.v)>>) ELSE Exc("ValidationError")

return_items_stripped(expl) ==
    IF expl.t = "str" THEN Ok(<<TextContent(Strip(expl.v))>>) ELSE Exc("ValidationError")

return_items(expl) ==
    IF expl.t = "str" THEN Ok(<<TextContent(expl.v)>>) ELSE Exc("ValidationError")

TtBegin ==
    /\ pc \in {"idle", "done"}
    /\ \E tech_text \in TechTexts :
          /\ arg' = [tech_text |-> tech_text]
          /\ log' = <<LogInput(tech_text)>>
    /\ call' = "tech_translator"
    /\ pc' = "post"
    /\ response' = NoResponse
    /\ explanation' = Unset
    /\ links' = <<>>
    /\ ret' = NoRet
    /\ UNCHANGED self_token

TtPost ==
    /\ call = "tech_translator" /\ pc = "post"
    /\ pc' = "await"
    /\ UNCHANGED <<self_token, call, arg, response, explanation, links, log, ret>>

TtTransportError ==
    /\ call = "tech_translator" /\ pc = "await"
    /\ ret' = except_handler(Exc("httpx.HTTPError"))
    /\ pc' = "done"
    /\ UNCHANGED <<self_token, call, arg, response, explanation, links, log>>

TtResponse ==
    /\ call = "tech_translator" /\ pc = "await"
    /\ response' \in Responses
    /\ pc' = "status"
    /\ UNCHANGED <<self_token, call, arg, explanation, links, log, ret>>

TtCheckStatus ==
    /\ call = "tech_translator" /\ pc = "status"
    /\ IF response.status_code # 200
         THEN /\ ret' = except_handler(Exc("McpError"))
              /\ pc' = "done"
         ELSE /\ ret' = ret
              /\ pc' = "parse"
    /\ UNCHANGED <<self_token, call, arg, response, explanation, links, log>>

TtParse ==
    /\ call = "tech_translator" /\ pc = "parse"
    /\ LET api_data == json(response)
           content == IF api_data.ok THEN content_of(api_data.v) ELSE api_data
       IN  IF content.ok
             THEN /\ explanation' = content.v
                  /\ ret' = ret
                  /\ pc' = "log_output"
             ELSE /\ explanation' = explanation
                  /\ ret' = except_handler(content)
                  /\ pc' = "done"
    /\ UNCHANGED <<self_token, call, arg, response, links, log>>

TtLogOutput ==
    /\ call = "tech_translator" /\ pc = "log_output"
    /\ log' = Append(log, LogOutput(explanation))
    /\ pc' = "return"
    /\ UNCHANGED <<self_token, call, arg, response, explanation, links, ret>>

TtReturn ==
    /\ call = "tech_translator" /\ pc = "return"
    /\ LET items == return_items(explanation)
       IN  ret' = IF items.ok THEN Return(items.v) ELSE except_handler(items)
    /\ pc' = "done"
    /\ UNCHANGED <<self_token, call, arg, response, explanation, links, log>>

(***************************************************************************)
(* Fetch.google_search_links                                               *)
(***************************************************************************)
SEARCH_FAILED ==
    <<"<", "e", "r", "r", "o", "r", ">", "F", "a", "i", "l", "e", "d", " ",
      "t", "o", " ", "p", "e", "r", "f", "o", "r", "m", " ", "s", "e", "a",
      "r", "c", "h", ".", "<", "/", "e", "r", "r", "o", "r", ">">>

NO_RESULTS ==
    <<"<", "e", "r", "r", "o", "r", ">", "N", "o", " ", "r", "e", "s", "u",
      "l", "t", "s", " ", "f", "o", "u", "n", "d", ".", "<", "/", "e", "r",
      "r", "o", "r", ">">>

HTTP == <<"h", "t", "t", "p">>

\* <a> elements a result page may contain.
Anchors ==
    { [class |-> "result__a", has_href |-> TRUE,
       href |-> <<"h", "t", "t", "p", ":", "a">>],
      [class |-> "result__a", has_href |-> TRUE,
       href |-> <<"/", "l", "?", "h", "t", "t", "p", "s", ":", "b">>],
      [class |-> "result__a", has_href |-> TRUE,
       href |-> <<"/", "h", "t", "m", "l">>],
      [class |-> "result__a", has_href |-> FALSE, href |-> <<>>],
      [class |-> "nav", has_href |-> TRUE,
       href |-> <<"h", "t", "t", "p", ":", "n">>] }

SearchResponses ==
    {[status_code |-> 200, anchors |-> as] : as \in SeqsUpTo(Anchors, MaxAnchors)}
    \cup {[status_code |-> c, anchors |-> <<>>] : c \in {202, 403}}

Queries == {<<"a", " ", "b">>}

\* query.replace(' ', '+')
RECURSIVE replace_space(_)
replace_space(q) ==
    IF q = <<>> THEN <<>>
    ELSE <<IF Head(q) = " " THEN "+" ELSE Head(q)>> \o replace_space(Tail(q))

\* soup.find_all("a", class_="result__a", href=True)
find_all(anchors) ==
    SelectSeq(anchors, LAMBDA a : a.class = "result__a" /\ a.has_href)

RECURSIVE collect_off_by_one(_, _, _)
collect_off_by_one(found, acc, num_results) ==
    IF found = <<>> THEN acc
    ELSE LET href == Head(found).href
             acc1 == IF Contains(HTTP, href) THEN Append(acc, href) ELSE acc
         IN  IF Len(acc1) > num_results THEN acc1
             ELSE collect_off_by_one(Tail(found), acc1, num_results)

\* The for loop of lines 96-101 over the anchors found, from `acc'.
RECURSIVE collect(_, _, _)
collect(found, acc, num_results) ==
    IF found = <<>> THEN acc
    ELSE LET href == Head(found).href
             acc1 == IF Contains(HTTP, href) THEN Append(acc, href) ELSE acc
         IN  IF Len(acc1) >= num_results THEN acc1
             ELSE collect(Tail(found), acc1, num_results)

GsBegin ==
    /\ pc \in {"idle", "done"}
    /\ \E query \in Queries, num_results \in 0..MaxNumResults :
          arg' = [query |-> query, num_results |-> num_results,
                  ddg_url |-> replace_space(query)]
    /\ call' = "google_search_links"
    /\ pc' = "await"
    /\ response' = NoResponse
    /\ explanation' = Unset
    /\ links' = <<>>
    /\ log' = <<>>
    /\ ret' = NoRet
    /\ UNCHANGED self_token

\* client.get raises; nothing in google_search_links catches it.
GsTransportError ==
    /\ call = "google_search_links" /\ pc = "await"
    /\ ret' = Raise("httpx.HTTPError", "none")
    /\ pc' = "done"
    /\ UNCHANGED <<self_token, call, arg, response, explanation, links, log>>

GsResponse ==
    /\ call = "google_search_links" /\ pc = "await"
    /\ \E resp \in SearchResponses :
          /\ response' = resp
          /\ IF resp.status_code # 200
               THEN /\ ret' = Return(<<SEARCH_FAILED>>)
                    /\ pc' = "done"
               ELSE /\ ret' = ret
                    /\ pc' = "parse"
    /\ UNCHANGED <<self_token, call, arg, explanation, links, log>>

GsParse ==
    /\ call = "google_search_links" /\ pc = "parse"
    /\ links' = collect(find_all(response.anchors), links, arg.num_results)
    /\ ret' = Return(IF links' # <<>> THEN links' ELSE <<NO_RESULTS>>)
    /\ pc' = "done"
    /\ UNCHANGED <<self_token, call, arg, response, explanation, log>>

(***************************************************************************)
(* Specification                                                           *)
(***************************************************************************)
Init ==
    /\ self_token \in ConfiguredTokens
    /\ call = "none"
    /\ pc = "idle"
    /\ arg = NoArg
    /\ response = NoResponse
    /\ explanation = Unset
    /\ links = <<>>
    /\ log = <<>>
    /\ ret = NoRet

Next ==
    \/ LoadAccessToken
    \/ TtBegin
    \/ TtPost
    \/ TtTransportError
    \/ TtResponse
    \/ TtCheckStatus
    \/ TtParse
    \/ TtLogOutput
    \/ TtReturn
    \/ GsBegin
    \/ GsTransportError
    \/ GsResponse
    \/ GsParse

Spec == Init /\ [][Next]_vars

(***************************************************************************)
(* Vocabulary of the properties                                            *)
(***************************************************************************)
InTt == call = "tech_translator"
InGs == call = "google_search_links"
InAuth == call = "load_access_token"

\* The response is a 200 whose JSON carries a string at
\* choices[0].message.content.
HasReply ==
    /\ InTt
    /\ response.status_code = 200
    /\ response.is_json
    /\ "choices" \in DOMAIN response.data
    /\ Len(response.data.choices) > 0
    /\ "message" \in DOMAIN response.data.choices[1]
    /\ "content" \in DOMAIN response.data.choices[1].message
    /\ response.data.choices[1].message.content.t = "str"

Reply == response.data.choices[1].message.content.v

\* The invocation returned a list of items for a reply string.
TtReturned == HasReply /\ pc = "done" /\ ret.kind = "return"

OutputLogged == \E i \in 1..Len(log) : log[i].msg = "tech_translator output"

\* A marker: digits, a period, then whitespace.
HasMarker(s) ==
    \E i \in 1..(Len(s) - 2) : IsDigit(s[i]) /\ s[i + 1] = "." /\ IsSpace(s[i + 2])

T1 == <<"P", "l", "a", "i", "n", "-", "E", "n", "g", "l", "i", "s", "h">>
T2 == <<"T", "L", ";", "D", "R">>
T3 == <<"E", "L", "I", "5">>
T4 == <<"V", "i", "s", "u", "a", "l", "-", "d", "i", "a", "g", "r", "a", "m">>

\* The canonical titles, in canonical order.
Titles == <<T1, T2, T3, T4>>

\* The item of a section: title label, line break, body.
Item(k, body) == TextContent(Titles[k] \o <<NL>> \o body)

\* The sections of the marker-delimited fragments bs, the first paired with
\* title k: empty fragments emit nothing, fragments past the last title are
\* dropped.
RECURSIVE Sections(_, _)
Sections(bs, k) ==
    IF bs = <<>> \/ k > Len(Titles) THEN <<>>
    ELSE (IF Strip(Head(bs)) # <<>> THEN <<Item(k, Strip(Head(bs)))>> ELSE <<>>)
         \o Sections(Tail(bs), k + 1)

(***************************************************************************)
(* Properties                                                              *)
(***************************************************************************)

\* C1: the returned list has 0 to 4 items, each item carries a distinct
\* canonical title, the titles appear in canonical order, and no item has an
\* empty body.
C1_SectionedOutput ==
    TtReturned =>
        LET items == ret.value
        IN  /\ Len(items) \in 0..4
            /\ \E f \in [1..Len(items) -> 1..4] :
                  /\ \A i, j \in 1..Len(items) : i < j => f[i] < f[j]
                  /\ \A i \in 1..Len(items) :
                        /\ StartsWith(items[i].text, Titles[f[i]] \o <<NL>>)
                        /\ Len(items[i].text) > Len(Titles[f[i]]) + 1

\* C2: a reply of exactly the four markers "1. " .. "4. ", each followed by a
\* non-empty body, yields the four items Plain-English, TL;DR, ELI5,
\* Visual-diagram, item i being title i, a line break and the trimmed body i.
C2_FourSections ==
    TtReturned =>
        \A bs \in [1..4 -> Texts] :
            (/\ \A i \in 1..4 : Strip(bs[i]) # <<>>
             /\ Reply = Numbered(bs, 1))
            => ret.value = [i \in 1..4 |-> Item(i, Strip(bs[i]))]

\* C3: a reply without any marker yields one Plain-English section whose
\* body is the trimmed reply, or no item at all when the reply is empty or
\* only whitespace.
C3_NoMarker ==
    (TtReturned /\ ~HasMarker(Reply)) =>
        IF Strip(Reply) # <<>>
          THEN ret.value = <<Item(1, Strip(Reply))>>
          ELSE ret.value = <<>>

\* C4: a fragment that is empty after trimming emits nothing while later
\* fragments keep their positional title: markers 1, 2, 3 with an empty
\* second body yield Plain-English (first body) and ELI5 (third body).
C4_EmptyFragmentKeepsPosition ==
    TtReturned =>
        \A bs \in [1..3 -> Texts] :
            (/\ Strip(bs[1]) # <<>>
             /\ Strip(bs[2]) = <<>>
             /\ Strip(bs[3]) # <<>>
             /\ Reply = Numbered(bs, 1))
            => ret.value = <<Item(1, Strip(bs[1])), Item(3, Strip(bs[3]))>>

\* C5: with five or more markers only the first four fragments produce
\* sections, in canonical order; later fragments are dropped without error.
C5_TruncateAfterFour ==
    HasReply =>
        \A n \in 5..MaxMarkers :
            \A bs \in [1..n -> Texts] :
                Reply = Numbered(bs, 1) =>
                    /\ ret.kind # "raise"
                    /\ pc = "done" => ret.value = Sections(SubSeq(bs, 1, 4), 1)

\* The invocation failed before a reply text was obtained: transport
\* exception, status other than 200, body that is not JSON, or JSON lacking
\* choices[0].message.content.
FailedBeforeReply ==
    /\ InTt
    /\ \/ pc = "done" /\ response = NoResponse
       \/ response # NoResponse /\ response.status_code # 200
       \/ response # NoResponse /\ ~response.is_json
       \/ response # NoResponse /\ response.data \in LackingData

\* C6: every failure before the reply text is obtained ends the invocation
\* with one McpError of code INTERNAL_ERROR; no item is returned and the
\* "tech_translator output" log step does not run.
C6_FailureIsInternalError ==
    FailedBeforeReply =>
        /\ ret.kind # "return"
        /\ ~OutputLogged
        /\ pc \in {"status", "parse", "done"}
        /\ pc = "done" =>
              ret = [kind |-> "raise", type |-> "McpError", code |-> "INTERNAL_ERROR"]

C6_Witness ==
    /\ FailedBeforeReply
    /\ pc = "done"
    /\ response # NoResponse
    /\ response.status_code = 200
    /\ response.is_json
    /\ response.data \in LackingData

\* C7: once a 200 response carries a reply string, the invocation ends by
\* returning a list of items and never by raising, for every string, the
\* empty one included.
C7_ReplyNeverRaises ==
    HasReply =>
        /\ ret.kind # "raise"
        /\ pc = "done" => ret.kind = "return"

C7_Witness == TtReturned /\ Reply = <<>>

\* C8: load_access_token returns the AccessToken (client_id "puch-client",
\* scopes ["*"], no expiry) exactly when the presented token equals the
\* configured one and None otherwise, and no step changes the configured
\* token.
C8_TokenMatch ==
    /\ [](InAuth =>
            /\ ret.kind = "return"
            /\ (arg.token = self_token) <=> (ret.value # None)
            /\ (arg.token = self_token) =>
                  ret.value = [token |-> self_token, client_id |-> "puch-client",
                               scopes |-> <<"*">>, expires_at |-> "None"])
    /\ [][self_token' = self_token]_vars

C8_Witness == InAuth /\ arg.token = self_token /\ ret.value # None

\* C9: on the success path exactly one text item is returned and its text is
\* the reply string unchanged; the input log entry is written before the
\* request is sent, the output entry after the reply is parsed and before
\* the item is returned.
C9_VerbatimAndLogOrder ==
    InTt =>
        /\ log # <<>> /\ log[1] = LogInput(arg.tech_text)
        /\ pc = "post" => response = NoResponse
        /\ OutputLogged =>
              /\ HasReply \/ response.data.choices[1].message.content.t = "null"
              /\ explanation = response.data.choices[1].message.content
              /\ pc \in {"return", "done"}
        /\ ret.kind = "return" =>
              /\ HasReply
              /\ ret.value = <<[type |-> "text", text |-> Reply]>>
              /\ log = <<LogInput(arg.tech_text),
                         [msg |-> "tech_translator output", text |-> JStr(Reply)]>>
        /\ (HasReply /\ pc = "done") => ret.kind = "return"

C9_Witness ==
    /\ TtReturned
    /\ HasMarker(Reply)
    /\ Strip(Reply) # Reply
    /\ ret.value[1].text = Reply

\* The hrefs google_search_links is to report: those of the result anchors
\* that contain "http", in document order.
Qualifying(anchors) ==
    LET sel == SelectSeq(anchors, LAMBDA a :
                   a.class = "result__a" /\ a.has_href /\ Contains(HTTP, a.href))
    IN  [i \in 1..Len(sel) |-> sel[i].href]

Min(a, b) == IF a < b THEN a ELSE b

\* C10: google_search_links never returns an empty list: the failure marker
\* on a non-200 response, the no-results marker when no link qualifies, and
\* otherwise the first qualifying hrefs in document order, at most
\* num_results of them when num_results >= 1.
C10_SearchLinks ==
    (InGs /\ pc = "done" /\ ret.kind = "return") =>
        /\ ret.value # <<>>
        /\ response.status_code # 200 => ret.value = <<SEARCH_FAILED>>
        /\ response.status_code = 200 =>
              LET q == Qualifying(response.anchors)
              IN  IF q = <<>> THEN ret.value = <<NO_RESULTS>>
                  ELSE arg.num_results >= 1 =>
                          /\ Len(ret.value) <= arg.num_results
                          /\ ret.value = SubSeq(q, 1, Min(arg.num_results, Len(q)))

C10_Witness ==
    /\ InGs /\ pc = "done" /\ ret.kind = "return"
    /\ response.status_code = 200
    /\ arg.num_results >= 1
    /\ Len(Qualifying(response.anchors)) > arg.num_results
    /\ Len(ret.value) = arg.num_results

====
